---- MODULE Spec2Model ----
(***************************************************************************)
(* Model of the Unfolded Circle Remote integration                        *)
(* (custom_components/unfoldedcircle): config-entry setup and unload,      *)
(* the version-1 registry migration, dock reconciliation, the number       *)
(* entities and the firmware update entity.                                *)
(*                                                                         *)
(* Strings whose contents the code inspects (unique ids, model numbers,    *)
(* serial numbers) are sequences of one-character strings, so that         *)
(* str.lower(), the "in" substring test, str.replace() and f-string        *)
(* concatenation are computed as Python computes them.                     *)
(***************************************************************************)
EXTENDS Integers, Sequences, FiniteSets, TLC

VARIABLES
    \* ---- the registry migration callback applied to one entry ----
    mig_pc,         \* "off" | "start" | "once" | "twice"
    mig_entry,      \* the registry entry: [domain, unique_id]
    mig_api,        \* coordinator.api: [model_number, serial_number]
    mig_first,      \* what the callback returned for the original entry
    mig_second      \* what it returned for the entry as rewritten

migVars == <<mig_pc, mig_entry, mig_api, mig_first, mig_second>>

VARIABLES
    \* ---- one config entry: async_setup_entry / async_unload_entry ----
    pc,                 \* where the entry is: "idle", a setup step, or "loaded"
    setup_result,       \* how the last setup attempt ended ("none" while running)
    setup_cause,        \* the device-client call that failed in it, and how
    unload_result,      \* how the last unload ended
    entry_version,      \* entry.version
    entry_data,         \* entry.data: whether it has "docks", and that list
    ent_registry,       \* entity registry entries of the config entry
    dev_registry,       \* device registry: each device's first identifier
    api,                \* the remote's model_number and serial_number
    remote_docks,       \* remote_api.docks, as the device reports them
    dock_idx,           \* position of the loop over remote_api.docks
    dock_outcome,       \* what each dock's eager refresh did in this attempt
    dock_coordinators,  \* the list collected by setup (dock ids)
    runtime_data,       \* entry.runtime_data
    issues,             \* the issue registry
    calls               \* calls made by the running/last setup or unload

setupVars == <<pc, setup_result, setup_cause, unload_result, entry_version,
               entry_data, ent_registry, dev_registry, api, remote_docks,
               dock_idx, dock_outcome, dock_coordinators, runtime_data, issues,
               calls>>

VARIABLES
    \* ---- dock reconciliation applied to one pair of lists ----
    rec_pc,         \* "off" | "start" | "once" | "twice"
    rec_config,     \* entry.data["docks"] before
    rec_live,       \* remote_api.docks
    rec_docks,      \* entry.data["docks"] now
    rec_updated,    \* config_updated of the last run
    rec_saves       \* async_update_entry(entry, data=...) calls so far

recVars == <<rec_pc, rec_config, rec_live, rec_docks, rec_updated, rec_saves>>

VARIABLES
    \* ---- a number entity's async_set_native_value ----
    num_pc,         \* "off" | "idle" | "refresh" | "awaiting" | "returned" | "raised"
    num_entity,     \* the entity: its class and its description's key
    num_value,      \* the value passed in, in tenths (a float)
    num_log         \* calls made by the invocation, in order

numVars == <<num_pc, num_entity, num_value, num_log>>

VARIABLES
    \* ---- the firmware update entity ----
    upd_op,         \* the last operation: "none", "device", "handle", "install",
                    \* "install_return", "install_raise"
    upd_api,        \* coordinator.api: what the device reports
    upd_entity,     \* the entity's _attr_in_progress and version fields
    upd_log,        \* update_remote calls and state writes of the last operation
    upd_pending     \* async_install calls suspended at await update_remote()

updVars == <<upd_op, upd_api, upd_entity, upd_log, upd_pending>>

VARIABLES
    \* ---- the entities the number and update platforms create ----
    ent_devices,    \* per config entry: the remote and its dock, as reported
    ent_created     \* the entities created so far

entVars == <<ent_devices, ent_created>>

VARIABLES
    \* ---- _migrate_device_identifiers over the devices of one entry ----
    dm_pc,          \* "off", "start", "once", "twice"
    dm_api,         \* coordinator.api: model_number and serial_number
    dm_before,      \* each device's identifier before the migration
    dm_after,       \* ... after one run
    dm_again        \* ... after a second run

dmVars == <<dm_pc, dm_api, dm_before, dm_after, dm_again>>

vars == <<migVars, setupVars, recVars, numVars, updVars, entVars, dmVars>>

notMig == <<setupVars, recVars, numVars, updVars, entVars, dmVars>>
notSetup == <<migVars, recVars, numVars, updVars, entVars, dmVars>>
notRec == <<migVars, setupVars, numVars, updVars, entVars, dmVars>>
notNum == <<migVars, setupVars, recVars, updVars, entVars, dmVars>>
notUpd == <<migVars, setupVars, recVars, numVars, entVars, dmVars>>
notEnt == <<migVars, setupVars, recVars, numVars, updVars, dmVars>>
notDm == <<migVars, setupVars, recVars, numVars, updVars, entVars>>

(***************************************************************************)
(* Bounds                                                                  *)
(***************************************************************************)
MaxIdLen == 3
MaxDock == 2
MaxRecDock == 3
MaxTenths == 25
MaxPercent == 2
MaxPending == 2
MaxDevices == 2

(***************************************************************************)
(* Python strings                                                          *)
(***************************************************************************)
RECURSIVE SeqsUpTo(_, _)
SeqsUpTo(S, n) ==
    IF n = 0 THEN {<<>>}
    ELSE LET shorter == SeqsUpTo(S, n - 1)
         IN  shorter \cup {Append(s, c) : s \in shorter, c \in S}

\* str.lower() on one character
LowerChar(c) ==
    CASE c = "U" -> "u"
      [] c = "C" -> "c"
      [] c = "R" -> "r"
      [] c = "D" -> "d"
      [] OTHER   -> c

\* str.lower()
Lower(s) == [i \in 1..Len(s) |-> LowerChar(s[i])]

\* sub in s
Contains(s, sub) ==
    \E i \in 0..(Len(s) - Len(sub)) : SubSeq(s, i + 1, i + Len(sub)) = sub

\* s.replace(old, new): every non-overlapping occurrence, left to right
RECURSIVE PyReplace(_, _, _)
PyReplace(s, old, new) ==
    IF old = <<>>
    THEN IF s = <<>> THEN new
         ELSE new \o <<Head(s)>> \o PyReplace(Tail(s), old, new)
    ELSE IF Len(s) < Len(old) THEN s
    ELSE IF SubSeq(s, 1, Len(old)) = old
         THEN new \o PyReplace(SubSeq(s, Len(old) + 1, Len(s)), old, new)
         ELSE <<Head(s)>> \o PyReplace(Tail(s), old, new)

\* f"{a}_{b}"
Fmt2(a, b) == a \o <<"_">> \o b

\* f"{a}_{b}_{c}"
Fmt3(a, b, c) == a \o <<"_">> \o b \o <<"_">> \o c

ucr == <<"u", "c", "r">>
ucd == <<"u", "c", "d">>
uc_main == <<"u", "c", ".", "m", "a", "i", "n">>
update_status == <<"u", "p", "d", "a", "t", "e", "_", "s", "t", "a", "t", "u", "s">>

(***************************************************************************)
(* __init__.py: async_migrate_entity_entry                                 *)
(***************************************************************************)
None == [some |-> FALSE, id |-> <<>>]
NewUniqueId(id) == [some |-> TRUE, id |-> id]

\* "ucr" not in unique_id.lower() and "ucd" not in unique_id.lower()
NoMarkerCaseSensitive(id) == ~Contains(id, ucr) /\ ~Contains(id, ucd)

NoMarker(id) == ~Contains(Lower(id), ucr) /\ ~Contains(Lower(id), ucd)

async_migrate_entity_entry(entry, a) ==
    IF /\ entry.domain # "update"
       /\ entry.domain # "switch"
       /\ NoMarker(entry.unique_id)
    THEN NewUniqueId(PyReplace(entry.unique_id, entry.unique_id,
                               Fmt2(a.model_number, entry.unique_id)))
    ELSE IF /\ entry.domain = "switch"
            /\ NoMarker(entry.unique_id)
            /\ ~Contains(entry.unique_id, uc_main)
    THEN NewUniqueId(PyReplace(entry.unique_id, entry.unique_id,
                               Fmt2(a.model_number, entry.unique_id)))
    ELSE IF /\ entry.domain = "update"
            /\ NoMarker(entry.unique_id)
    THEN NewUniqueId(PyReplace(entry.unique_id, entry.unique_id,
                               Fmt3(a.model_number, a.serial_number,
                                    update_status)))
    ELSE None

\* er.async_migrate_entries applies the callback's update to one entry
MigrateOne(entry, a) ==
    LET upd == async_migrate_entity_entry(entry, a)
    IN  IF upd.some THEN [entry EXCEPT !.unique_id = upd.id] ELSE entry

(***************************************************************************)
(* Inputs of the migration callback                                        *)
(***************************************************************************)
IdAlphabet == {"u", "c", "r", "d", "U", "x"}

LegacyIds ==
    SeqsUpTo(IdAlphabet, MaxIdLen)
        \cup {p \o uc_main : p \in SeqsUpTo({"x", "U"}, 1)}

Domains == {"update", "switch", "number", "sensor"}

ModelNumbers == {<<"U", "C", "R", "2">>, <<"u", "c", "d", "2">>, <<"R", "2">>}

SerialNumbers == {<<"0", "1">>, <<"0", "2">>}

(***************************************************************************)
(* __init__.py: the pieces of async_setup_entry                            *)
(***************************************************************************)
DockIds == 1..MaxDock

\* what an awaited device-client call can do
Outcomes == {"ok", "AuthenticationError", "ConnectionError", "Exception"}

Call(op, arg) == [op |-> op, arg |-> arg]

HasCall(log, op, arg) == \E i \in 1..Len(log) : log[i] = Call(op, arg)

CountCall(log, op, arg) == Cardinality({i \in 1..Len(log) : log[i] = Call(op, arg)})

NoCause == [call |-> "none", exc |-> "none"]
NoRuntime == [set |-> FALSE, coordinator |-> "none", remote |-> "none",
              dock_coordinators |-> <<>>]
RuntimeData(c, r, d) == [set |-> TRUE, coordinator |-> c, remote |-> r,
                         dock_coordinators |-> d]

\* except AuthenticationError / except ConnectionError / except Exception
MapConnectFailure(exc) ==
    IF exc = "AuthenticationError" THEN "ConfigEntryAuthFailed"
    ELSE "ConfigEntryNotReady"

\* async_config_entry_first_refresh of the main coordinator: a failed first
\* refresh is fatal to setup and surfaces as a retryable error
FirstRefreshFailure == "ConfigEntryNotReady"

NeedsMigrationAlways(version) == TRUE

\* if entry.version == 1:
NeedsMigration(version) == version = 1

\* _migrate_device_identifiers, for one device's first identifier
MigrateIdentifier(old_identifier, a) ==
    IF NoMarker(old_identifier[1])
    THEN <<a.model_number, a.serial_number>>
    ELSE old_identifier

_migrate_device_identifiers(devices, a) ==
    [i \in 1..Len(devices) |-> MigrateIdentifier(devices[i], a)]

\* er.async_migrate_entries with async_migrate_entity_entry
async_migrate_entries(entries, a) ==
    [i \in 1..Len(entries) |-> MigrateOne(entries[i], a)]

\* _update_config_entry: entry.data afterwards
_update_config_entry(data, docks) ==
    IF ~data.has_docks
    THEN [has_docks |-> TRUE,
          docks |-> [i \in 1..Len(docks) |->
                       [id |-> docks[i].id, name |-> docks[i].name,
                        password |-> ""]]]
    ELSE data

\* list.remove(x): drops the first element equal to x
ListRemove(l, x) ==
    LET i == CHOOSE k \in 1..Len(l) : l[k] = x /\ \A j \in 1..(k - 1) : l[j] # x
    IN  SubSeq(l, 1, i - 1) \o SubSeq(l, i + 1, Len(l))

FoundLive(config_dock, live) == \E i \in 1..Len(live) : live[i].id = config_dock.id

FoundConfig(dock, cfg) == \E i \in 1..Len(cfg) : cfg[i].id = dock.id

\* for config_dock in list(entry.data["docks"]): ... remove
RECURSIVE RemoveVanished(_, _, _, _)
RemoveVanished(copy, k, cfg, live) ==
    IF k > Len(copy) THEN cfg
    ELSE IF FoundLive(copy[k], live)
         THEN RemoveVanished(copy, k + 1, cfg, live)
         ELSE RemoveVanished(copy, k + 1, ListRemove(cfg, copy[k]), live)

\* for dock in remote_api.docks: ... append
RECURSIVE AppendNew(_, _, _)
AppendNew(cfg, k, live) ==
    IF k > Len(live) THEN cfg
    ELSE IF FoundConfig(live[k], cfg)
         THEN AppendNew(cfg, k + 1, live)
         ELSE AppendNew(Append(cfg, [id |-> live[k].id, name |-> live[k].name,
                                     password |-> ""]),
                        k + 1, live)

ReconcileAppendOnly(cfg, live) == AppendNew(cfg, 1, live)

\* the dock list after the two loops
Reconcile(cfg, live) == AppendNew(RemoveVanished(cfg, 1, cfg, live), 1, live)

\* config_updated after the first loop: set when a record is removed
RECURSIVE ConfigUpdatedByRemove(_, _, _, _)
ConfigUpdatedByRemove(copy, k, live, flag) ==
    IF k > Len(copy) THEN flag
    ELSE ConfigUpdatedByRemove(copy, k + 1, live,
                               IF FoundLive(copy[k], live) THEN flag ELSE TRUE)

\* config_updated after the second loop: set when a record is appended
RECURSIVE ConfigUpdatedByAppend(_, _, _, _)
ConfigUpdatedByAppend(cfg, k, live, flag) ==
    IF k > Len(live) THEN flag
    ELSE IF FoundConfig(live[k], cfg)
         THEN ConfigUpdatedByAppend(cfg, k + 1, live, flag)
         ELSE ConfigUpdatedByAppend(
                 Append(cfg, [id |-> live[k].id, name |-> live[k].name,
                              password |-> ""]),
                 k + 1, live, TRUE)

config_updated_always(cfg, live) == TRUE

\* config_updated at line 143, which decides the async_update_entry call
config_updated(cfg, live) ==
    ConfigUpdatedByAppend(RemoveVanished(cfg, 1, cfg, live), 1, live,
                          ConfigUpdatedByRemove(cfg, 1, live, FALSE))

\* dock._password = config_entry.get("password") of the first record with
\* the dock's id; after reconciliation there always is one
DockPassword(dock, cfg) ==
    IF FoundConfig(dock, cfg)
    THEN cfg[CHOOSE i \in 1..Len(cfg) :
               cfg[i].id = dock.id /\ \A j \in 1..(i - 1) : cfg[j].id # dock.id].password
    ELSE ""

has_password_always(password) == TRUE

\* dock.has_password
has_password(password) == password # ""

CollectEvenOnFailure(dcs, dock, o) == Append(dcs, dock.id)

\* dock_coordinators.append(dock_coordinator) at the end of the try body
Collect(dcs, dock, o) == IF o = "ok" THEN Append(dcs, dock.id) ELSE dcs

(***************************************************************************)
(* The config entry as the host hands it to setup                          *)
(***************************************************************************)
DistinctIds(l) == \A i, j \in 1..Len(l) : i # j => l[i].id # l[j].id

PersistedDockLists(n) ==
    {l \in SeqsUpTo([id : 1..n, name : {"saved"}, password : {"", "pw"}], n) :
        DistinctIds(l)}

LiveDockLists(n) ==
    {l \in SeqsUpTo([id : 1..n, name : {"live"}], n) : DistinctIds(l)}

UCR2 == <<"U", "C", "R", "2">>
SN == <<"0", "1">>

\* the registries of an installation made by the first schema version, and of
\* one made by the current code (whose firmware entity id is name-based)
LegacyInstall ==
    [entities |-> << [domain |-> "number", unique_id |-> <<"0", "1", "_", "b">>],
                     [domain |-> "update", unique_id |-> <<"n", "_", "u">>] >>,
     devices  |-> << <<SN>>, << <<"d", "1">> >> >>]

CurrentInstall ==
    [entities |-> << [domain |-> "number", unique_id |-> Fmt3(UCR2, SN, <<"b">>)],
                     [domain |-> "update", unique_id |-> <<"n", "_", "u">>] >>,
     devices  |-> << <<UCR2, SN>>, << <<"U", "C", "D", "2">>, <<"0", "3">> >> >>]

NoAttempt ==
    /\ setup_result = "none"
    /\ setup_cause = NoCause
    /\ unload_result = "none"
    /\ remote_docks = <<>>
    /\ dock_idx = 1
    /\ dock_outcome = [d \in DockIds |-> "untried"]
    /\ dock_coordinators = <<>>
    /\ runtime_data = NoRuntime
    /\ issues = {}
    /\ calls = <<>>

EntryInit ==
    /\ pc = "idle"
    /\ api = [model_number |-> UCR2, serial_number |-> SN]
    /\ \/ /\ entry_version = 1
          /\ ent_registry = LegacyInstall.entities
          /\ dev_registry = LegacyInstall.devices
          /\ \/ entry_data = [has_docks |-> FALSE, docks |-> <<>>]
             \/ \E l \in PersistedDockLists(MaxDock) :
                   entry_data = [has_docks |-> TRUE, docks |-> l]
       \/ /\ entry_version = 2
          /\ ent_registry = CurrentInstall.entities
          /\ dev_registry = CurrentInstall.devices
          /\ \E l \in PersistedDockLists(MaxDock) :
                entry_data = [has_docks |-> TRUE, docks |-> l]
    /\ NoAttempt

SetupIdle ==
    /\ pc = "off"
    /\ api = [model_number |-> UCR2, serial_number |-> SN]
    /\ entry_version = 2
    /\ ent_registry = <<>>
    /\ dev_registry = <<>>
    /\ entry_data = [has_docks |-> TRUE, docks |-> <<>>]
    /\ NoAttempt

\* the attempt ends with an exception: its locals are gone
Fail(result, call, exc) ==
    /\ pc' = "idle"
    /\ setup_result' = result
    /\ setup_cause' = [call |-> call, exc |-> exc]
    /\ remote_docks' = <<>>
    /\ dock_idx' = 1
    /\ dock_outcome' = [d \in DockIds |-> "untried"]
    /\ dock_coordinators' = <<>>
    /\ runtime_data' = NoRuntime

\* the attempt goes on to its next step
GoOn(next) ==
    /\ pc' = next
    /\ UNCHANGED <<setup_result, setup_cause, remote_docks, dock_idx,
                   dock_outcome, dock_coordinators>>

(***************************************************************************)
(* async_setup_entry, one action per stretch between its awaited calls.    *)
(* dock_idx, dock_outcome, dock_coordinators, runtime_data and             *)
(* remote_docks belong to the running attempt or the loaded entry: a new   *)
(* attempt starts them afresh and an unload drops them.                    *)
(***************************************************************************)
\* lines 56-66: construct the client, validate_connection,
\* get_remote_information, and the three except clauses
SetupConnect ==
    /\ pc = "idle"
    /\ \/ \E live \in LiveDockLists(MaxDock) :
             /\ calls' = <<Call("validate_connection", 0),
                           Call("get_remote_information", 0)>>
             /\ pc' = "init"
             /\ setup_result' = "none"
             /\ setup_cause' = NoCause
             /\ remote_docks' = live
             /\ dock_idx' = 1
             /\ dock_outcome' = [d \in DockIds |-> "untried"]
             /\ dock_coordinators' = <<>>
             /\ runtime_data' = NoRuntime
       \/ \E failing \in {"validate_connection", "get_remote_information"},
             exc \in Outcomes \ {"ok"} :
             /\ calls' = IF failing = "validate_connection"
                         THEN <<Call("validate_connection", 0)>>
                         ELSE <<Call("validate_connection", 0),
                                Call("get_remote_information", 0)>>
             /\ Fail(MapConnectFailure(exc), failing, exc)
    /\ unload_result' = "none"
    /\ UNCHANGED <<entry_version, entry_data, ent_registry, dev_registry, api,
                   issues>>
    /\ UNCHANGED notSetup

\* lines 68-72: await coordinator.api.init(), outside any try
SetupApiInit ==
    /\ pc = "init"
    /\ \E o \in Outcomes :
          /\ calls' = Append(calls, Call("init", 0))
          /\ IF o = "ok"
             THEN GoOn("migrate") /\ UNCHANGED runtime_data
             ELSE Fail(o, "init", o)
    /\ UNCHANGED <<unload_result, entry_version, entry_data, ent_registry,
                   dev_registry, api, issues>>
    /\ UNCHANGED notSetup

\* lines 111-118: the version-1 migration
SetupMigrate ==
    /\ pc = "migrate"
    /\ IF NeedsMigration(entry_version)
       THEN /\ ent_registry' = async_migrate_entries(ent_registry, api)
            /\ dev_registry' = _migrate_device_identifiers(dev_registry, api)
            /\ entry_data' = _update_config_entry(entry_data, remote_docks)
            /\ entry_version' = 2
            /\ calls' = calls \o
                   <<Call("async_migrate_entries", 0),
                     Call("_migrate_device_identifiers", 0),
                     Call("_update_config_entry", 0),
                     Call("async_update_entry(version=2)", 0)>>
       ELSE UNCHANGED <<ent_registry, dev_registry, entry_data, entry_version,
                        calls>>
    /\ pc' = "reconcile"
    /\ UNCHANGED <<setup_result, setup_cause, unload_result, api, remote_docks,
                   dock_idx, dock_outcome, dock_coordinators, runtime_data,
                   issues>>
    /\ UNCHANGED notSetup

\* lines 120-144: synchronise entry.data["docks"] with remote_api.docks
SetupReconcile ==
    /\ pc = "reconcile"
    /\ entry_data.has_docks
    /\ LET after == Reconcile(entry_data.docks, remote_docks)
       IN  /\ entry_data' = [entry_data EXCEPT !.docks = after]
           /\ calls' = IF config_updated(entry_data.docks, remote_docks)
                       THEN Append(calls, Call("async_update_entry(data)", 0))
                       ELSE calls
    /\ pc' = "docks"
    /\ UNCHANGED <<setup_result, setup_cause, unload_result, entry_version,
                   ent_registry, dev_registry, api, remote_docks, dock_idx,
                   dock_outcome, dock_coordinators, runtime_data, issues>>
    /\ UNCHANGED notSetup

\* lines 148-190: one pass of the loop over remote_api.docks
SetupDock ==
    /\ pc = "docks"
    /\ dock_idx <= Len(remote_docks)
    /\ LET dock == remote_docks[dock_idx]
           password == DockPassword(dock, entry_data.docks)
       IN  IF has_password(password)
           THEN \E o \in {"ok", "update_failed", "refresh_failed"} :
                   /\ calls' = calls \o
                         (IF o = "update_failed"
                          THEN <<Call("dock.update", dock.id)>>
                          ELSE <<Call("dock.update", dock.id),
                                 Call("dock.first_refresh", dock.id)>>)
                   /\ dock_outcome' = [dock_outcome EXCEPT ![dock.id] = o]
                   /\ dock_coordinators' = Collect(dock_coordinators, dock, o)
                   /\ UNCHANGED issues
           ELSE /\ issues' = issues \cup {<<"dock_password", dock.id>>}
                /\ calls' = Append(calls, Call("async_create_issue", dock.id))
                /\ UNCHANGED <<dock_outcome, dock_coordinators>>
    /\ dock_idx' = dock_idx + 1
    /\ UNCHANGED <<pc, setup_result, setup_cause, unload_result, entry_version,
                   entry_data, ent_registry, dev_registry, api, remote_docks,
                   runtime_data>>
    /\ UNCHANGED notSetup

\* lines 192-196: entry.runtime_data, then the main coordinator's first refresh
SetupFirstRefresh ==
    /\ pc = "docks"
    /\ dock_idx > Len(remote_docks)
    /\ calls' = Append(calls, Call("first_refresh", 0))
    /\ \E o \in {"ok", "UpdateFailed"} :
          IF o = "ok"
          THEN /\ GoOn("finish")
               /\ runtime_data' = RuntimeData("coordinator", "remote_api",
                                              dock_coordinators)
          ELSE Fail(FirstRefreshFailure, "first_refresh", o)
    /\ UNCHANGED <<unload_result, entry_version, entry_data, ent_registry,
                   dev_registry, api, issues>>
    /\ UNCHANGED notSetup

\* lines 198-219: the websocket advisory, the platforms, init_websocket
SetupFinish ==
    /\ pc = "finish"
    /\ \E advise \in BOOLEAN, o \in {"ok", "Exception"} :
          /\ issues' = IF advise THEN issues \cup {<<"websocket_connection", 0>>}
                       ELSE issues
          /\ calls' = calls \o
                (IF advise THEN <<Call("async_create_issue", 0)>> ELSE <<>>) \o
                <<Call("async_forward_entry_setups", 0), Call("init_websocket", 0)>>
          /\ IF o = "ok"
             THEN /\ pc' = "loaded"
                  /\ setup_result' = "True"
                  /\ UNCHANGED <<setup_cause, remote_docks, dock_idx,
                                 dock_outcome, dock_coordinators, runtime_data>>
             ELSE Fail(o, "init_websocket", o)
    /\ UNCHANGED <<unload_result, entry_version, entry_data, ent_registry,
                   dev_registry, api>>
    /\ UNCHANGED notSetup

(***************************************************************************)
(* async_unload_entry                                                      *)
(***************************************************************************)
\* the issue ids deleted by the loop over coordinator.api.docks
DockIssues(docks) == {<<"dock_password", docks[i].id>> : i \in 1..Len(docks)}

DeleteCalls(docks) == [i \in 1..Len(docks) |-> Call("async_delete_issue", docks[i].id)]

\* lines 222-236; the try body stops at the first call that raises
Unload ==
    /\ pc = "loaded"
    /\ \E close \in {"ok", "raise"}, delete \in {"ok", "raise"},
          teardown \in {"True", "False", "raise"} :
          LET deletes == DeleteCalls(remote_docks)
              tried == IF close = "raise" THEN <<Call("close_websocket", 0)>>
                       ELSE IF delete = "raise" /\ Len(deletes) > 0
                       THEN <<Call("close_websocket", 0), deletes[1]>>
                       ELSE <<Call("close_websocket", 0)>> \o deletes
              deleted == IF close = "raise" \/ delete = "raise" THEN {}
                         ELSE DockIssues(remote_docks)
          IN  /\ calls' = Append(tried, Call("async_unload_platforms", 0))
              /\ issues' = issues \ deleted
              /\ unload_result' = IF teardown = "raise" THEN "raised" ELSE teardown
    /\ pc' = "idle"
    /\ setup_result' = "none"
    /\ setup_cause' = NoCause
    /\ remote_docks' = <<>>
    /\ dock_idx' = 1
    /\ dock_outcome' = [d \in DockIds |-> "untried"]
    /\ dock_coordinators' = <<>>
    /\ runtime_data' = NoRuntime
    /\ UNCHANGED <<entry_version, entry_data, ent_registry, dev_registry, api>>
    /\ UNCHANGED notSetup

\* between an unload (or a failed attempt) and the next setup the user
\* enters the password of a dock: the record's password becomes non-empty
DockPasswordEntered ==
    /\ pc = "idle"
    /\ \E i \in 1..Len(entry_data.docks) :
          /\ entry_data.docks[i].password = ""
          /\ entry_data' = [entry_data EXCEPT !.docks[i].password = "pw"]
    /\ UNCHANGED <<pc, setup_result, setup_cause, unload_result, entry_version,
                   ent_registry, dev_registry, api, remote_docks, dock_idx,
                   dock_outcome, dock_coordinators, runtime_data, issues, calls>>
    /\ UNCHANGED notSetup

MigIdle ==
    /\ mig_pc = "off"
    /\ mig_entry = [domain |-> "number", unique_id |-> <<>>]
    /\ mig_api = [model_number |-> <<>>, serial_number |-> <<>>]
    /\ mig_first = None
    /\ mig_second = None

MigInit ==
    /\ mig_pc = "start"
    /\ mig_entry \in [domain : Domains, unique_id : LegacyIds]
    /\ mig_api \in [model_number : ModelNumbers, serial_number : SerialNumbers]
    /\ mig_first = None
    /\ mig_second = None

\* first run of er.async_migrate_entries over the entry
MigrateFirst ==
    /\ mig_pc = "start"
    /\ mig_first' = async_migrate_entity_entry(mig_entry, mig_api)
    /\ mig_pc' = "once"
    /\ UNCHANGED <<mig_entry, mig_api, mig_second>>
    /\ UNCHANGED notMig

\* a second run, over the entry as the first run left it
MigrateSecond ==
    /\ mig_pc = "once"
    /\ mig_second' = async_migrate_entity_entry(MigrateOne(mig_entry, mig_api), mig_api)
    /\ mig_pc' = "twice"
    /\ UNCHANGED <<mig_entry, mig_api, mig_first>>
    /\ UNCHANGED notMig



(***************************************************************************)
(* Dock reconciliation (lines 120-144) on its own: one pair of lists, the  *)
(* two loops applied once and then once more with the same live list       *)
(***************************************************************************)
RecIdle ==
    /\ rec_pc = "off"
    /\ rec_config = <<>>
    /\ rec_live = <<>>
    /\ rec_docks = <<>>
    /\ rec_updated = FALSE
    /\ rec_saves = 0

RecInit ==
    /\ rec_pc = "start"
    /\ rec_config \in PersistedDockLists(MaxRecDock)
    /\ rec_live \in LiveDockLists(MaxRecDock)
    /\ rec_docks = rec_config
    /\ rec_updated = FALSE
    /\ rec_saves = 0

ReconcileFirst ==
    /\ rec_pc = "start"
    /\ rec_docks' = Reconcile(rec_docks, rec_live)
    /\ rec_updated' = config_updated(rec_docks, rec_live)
    /\ rec_saves' = IF rec_updated' THEN rec_saves + 1 ELSE rec_saves
    /\ rec_pc' = "once"
    /\ UNCHANGED <<rec_config, rec_live>>
    /\ UNCHANGED notRec

ReconcileAgain ==
    /\ rec_pc = "once"
    /\ rec_docks' = Reconcile(rec_docks, rec_live)
    /\ rec_updated' = config_updated(rec_docks, rec_live)
    /\ rec_saves' = IF rec_updated' THEN rec_saves + 1 ELSE rec_saves
    /\ rec_pc' = "twice"
    /\ UNCHANGED <<rec_config, rec_live>>
    /\ UNCHANGED notRec

(***************************************************************************)
(* number.py: UCRemoteNumber / UCDockNumber . async_set_native_value       *)
(***************************************************************************)
\* UNFOLDED_CIRCLE_NUMBER and UNFOLDED_CIRCLE_DOCK_NUMBER: (class, key)
NumberEntities ==
    [class : {"UCRemoteNumber"},
     key : {"display_brightness", "button_backlight_brightness",
            "sound_effects_volume", "display_timeout", "wakeup_sensitivity",
            "sleep_timeout"}]
    \cup [class : {"UCDockNumber"}, key : {"led_brightness", "ethernet_led_brightness"}]

PyIntFloor(tenths) == tenths \div 10

\* int(value) of a float given in tenths: truncation towards zero
PyInt(tenths) == IF tenths >= 0 THEN tenths \div 10 ELSE -((-tenths) \div 10)

\* description.control_fn(coordinator, value): the device-client call it awaits
control_fn(entity, value) ==
    CASE entity.key = "display_brightness" ->
           [method |-> "patch_remote_display_settings", arg |-> "brightness",
            value |-> value, str |-> FALSE]
      [] entity.key = "button_backlight_brightness" ->
           [method |-> "patch_remote_button_settings", arg |-> "brightness",
            value |-> value, str |-> FALSE]
      [] entity.key = "sound_effects_volume" ->
           [method |-> "patch_remote_sound_settings", arg |-> "sound_effects_volume",
            value |-> value, str |-> FALSE]
      [] entity.key = "display_timeout" ->
           [method |-> "patch_remote_power_saving_settings", arg |-> "display_timeout",
            value |-> value, str |-> FALSE]
      [] entity.key = "wakeup_sensitivity" ->
           [method |-> "patch_remote_power_saving_settings", arg |-> "wakeup_sensitivity",
            value |-> value, str |-> FALSE]
      [] entity.key = "sleep_timeout" ->
           [method |-> "patch_remote_power_saving_settings", arg |-> "sleep_timeout",
            value |-> value, str |-> FALSE]
      [] entity.key = "led_brightness" ->
           [method |-> "send_command", arg |-> "SET_LED_BRIGHTNESS",
            value |-> value, str |-> TRUE]
      [] entity.key = "ethernet_led_brightness" ->
           [method |-> "send_command", arg |-> "SET_ETHERNET_LED_BRIGHTNESS",
            value |-> value, str |-> TRUE]

NoApiCall == [method |-> "none", arg |-> "none", value |-> 0, str |-> FALSE]

NumEvent(ev, value, api_call) == [ev |-> ev, value |-> value, api_call |-> api_call]

NumIdle ==
    /\ num_pc = "off"
    /\ num_entity = [class |-> "UCRemoteNumber", key |-> "display_brightness"]
    /\ num_value = 0
    /\ num_log = <<>>

NumInit ==
    /\ num_pc = "idle"
    /\ num_entity \in NumberEntities
    /\ num_value \in (-MaxTenths)..MaxTenths
    /\ num_log = <<>>

\* value_int = int(value); await control_fn(self.coordinator, value_int)
NumSetter ==
    /\ num_pc = "idle"
    /\ \E o \in {"ok", "raise"} :
          /\ num_log' = Append(num_log,
                               NumEvent("control_fn", PyInt(num_value),
                                        control_fn(num_entity, PyInt(num_value))))
          /\ num_pc' = IF o = "ok" THEN "refresh" ELSE "raised"
    /\ UNCHANGED <<num_entity, num_value>>
    /\ UNCHANGED notNum

\* await self.coordinator.async_request_refresh(): the request is issued
NumRequestRefresh ==
    /\ num_pc = "refresh"
    /\ num_log' = Append(num_log, NumEvent("async_request_refresh", 0, NoApiCall))
    /\ num_pc' = "awaiting"
    /\ UNCHANGED <<num_entity, num_value>>
    /\ UNCHANGED notNum

\* the awaited request completes and async_set_native_value returns
NumReturn ==
    /\ num_pc = "awaiting"
    /\ num_log' = Append(num_log, NumEvent("return", 0, NoApiCall))
    /\ num_pc' = "returned"
    /\ UNCHANGED <<num_entity, num_value>>
    /\ UNCHANGED notNum

(***************************************************************************)
(* update.py: the firmware update entity                                   *)
(***************************************************************************)
\* values of _attr_in_progress: False, the string "0", or a number
InProgressFalse == [kind |-> "False", num |-> 0]
InProgressStr0 == [kind |-> "str:0", num |-> 0]
InProgressNum(n) == [kind |-> "number", num |-> n]

Versions == {"1.9", "2.0"}

DeviceReports ==
    [update_in_progress : {"True", "False", "None"},
     update_percent : 0..MaxPercent,
     sw_version : Versions,
     latest_sw_version : Versions]

\* Update.__init__: the version fields are read from the device
NewUpdateEntity(a) ==
    [in_progress |-> InProgressFalse,
     installed_version |-> a.sw_version,
     latest_version |-> a.latest_sw_version]

HandleNoQuirk(entity, a) ==
    IF a.update_in_progress = "True"
    THEN [entity EXCEPT !.in_progress = InProgressNum(a.update_percent)]
    ELSE [entity EXCEPT !.in_progress = InProgressFalse,
                        !.installed_version = a.sw_version,
                        !.latest_version = a.latest_sw_version]

\* Update._handle_coordinator_update: the entity afterwards
HandleUpdate(entity, a) ==
    IF a.update_in_progress = "True"
    THEN IF a.update_percent = 0
         THEN [entity EXCEPT !.in_progress = InProgressStr0]
         ELSE [entity EXCEPT !.in_progress = InProgressNum(a.update_percent)]
    ELSE [entity EXCEPT !.in_progress = InProgressFalse,
                        !.installed_version = a.sw_version,
                        !.latest_version = a.latest_sw_version]

UpdIdle ==
    /\ upd_op = "off"
    /\ upd_api = [update_in_progress |-> "False", update_percent |-> 0,
                  sw_version |-> "1.9", latest_sw_version |-> "1.9"]
    /\ upd_entity = NewUpdateEntity(upd_api)
    /\ upd_log = <<>>
    /\ upd_pending = 0

UpdInit ==
    /\ upd_op = "none"
    /\ upd_api \in DeviceReports
    /\ upd_entity = NewUpdateEntity(upd_api)
    /\ upd_log = <<>>
    /\ upd_pending = 0

\* the device's state moves on (a poll or a push event refreshes the client)
DeviceChanges ==
    /\ upd_op # "off"
    /\ upd_api' \in DeviceReports
    /\ upd_api' # upd_api
    /\ upd_op' = "device"
    /\ upd_log' = <<>>
    /\ UNCHANGED <<upd_entity, upd_pending>>
    /\ UNCHANGED notUpd

\* lines 75-88
_handle_coordinator_update ==
    /\ upd_op # "off"
    /\ upd_entity' = HandleUpdate(upd_entity, upd_api)
    /\ upd_log' = <<"async_write_ha_state">>
    /\ upd_op' = "handle"
    /\ UNCHANGED <<upd_api, upd_pending>>
    /\ UNCHANGED notUpd

AlreadyInstallingByEntity(entity, a) == entity.in_progress # InProgressFalse

\* line 60: the guard of async_install reads the device client
AlreadyInstalling(entity, a) == a.update_in_progress = "True"

\* lines 56-62: async_install up to its await; the guard and the start of
\* update_remote run without a suspension point in between
async_install ==
    /\ upd_op # "off"
    /\ IF AlreadyInstalling(upd_entity, upd_api)
       THEN /\ upd_log' = <<>>
            /\ UNCHANGED upd_pending
       ELSE /\ upd_pending < MaxPending
            /\ upd_log' = <<"update_remote">>
            /\ upd_pending' = upd_pending + 1
    /\ upd_op' = "install"
    /\ UNCHANGED <<upd_api, upd_entity>>
    /\ UNCHANGED notUpd

\* lines 62-64: update_remote returns and async_install goes on, or
\* update_remote raises and the exception leaves async_install
async_install_resume ==
    /\ upd_pending > 0
    /\ upd_pending' = upd_pending - 1
    /\ \E o \in {"ok", "raise"} :
          IF o = "ok"
          THEN /\ upd_entity' = [upd_entity EXCEPT !.in_progress = InProgressStr0]
               /\ upd_log' = <<"async_write_ha_state">>
               /\ upd_op' = "install_return"
          ELSE /\ upd_log' = <<>>
               /\ upd_op' = "install_raise"
               /\ UNCHANGED upd_entity
    /\ UNCHANGED upd_api
    /\ UNCHANGED notUpd

(***************************************************************************)
(* The unique ids of the entities of number.py and update.py               *)
(***************************************************************************)
\* the description.unique_id strings
id_display_brightness ==
    <<"d", "i", "s", "p", "l", "a", "y", "_", "b", "r", "i", "g", "h", "t", "n", "e", "s", "s">>
id_button_backlight_brightness ==
    <<"b", "u", "t", "t", "o", "n", "_", "b", "a", "c", "k", "l", "i", "g", "h", "t", "_", "b", "r", "i", "g", "h", "t", "n", "e", "s", "s">>
id_sound_effects_volume ==
    <<"s", "o", "u", "n", "d", "_", "e", "f", "f", "e", "c", "t", "s", "_", "v", "o", "l", "u", "m", "e">>
id_display_timeout ==
    <<"d", "i", "s", "p", "l", "a", "y", "_", "t", "i", "m", "e", "o", "u", "t">>
id_wakeup_sensitivity ==
    <<"w", "a", "k", "e", "u", "p", "_", "s", "e", "n", "s", "i", "t", "i", "v", "i", "t", "y">>
id_sleep_timeout ==
    <<"s", "l", "e", "e", "p", "_", "t", "i", "m", "e", "o", "u", "t">>

\* description.unique_id of UNFOLDED_CIRCLE_NUMBER
RemoteNumberIds ==
    {id_display_brightness, id_button_backlight_brightness, id_sound_effects_volume,
     id_display_timeout, id_wakeup_sensitivity, id_sleep_timeout}

\* description.unique_id of UNFOLDED_CIRCLE_DOCK_NUMBER
DockNumberIds == {id_display_brightness, id_button_backlight_brightness}

\* UCRemoteNumber.__init__ / UCDockNumber.__init__: _attr_unique_id
NumberUniqueId(a, unique_id) == Fmt3(a.model_number, a.serial_number, unique_id)

\* Update.__init__: _attr_unique_id = f"{name}_update_status"
UpdateUniqueId(a) == Fmt2(a.name, update_status)

Entity(entry, class, device, desc, uid) ==
    [entry |-> entry, class |-> class, device |-> device, desc |-> desc,
     unique_id |-> uid]

ConfigEntries == {1, 2}

RemoteNames == {<<"R", "e", "m", "o", "t", "e">>, <<"D", "e", "n">>}

Remotes ==
    [model_number : {UCR2, <<"U", "C", "R", "3">>},
     serial_number : {<<"0", "1">>, <<"0", "2">>},
     name : RemoteNames]

Docks ==
    [model_number : {<<"U", "C", "D", "2">>},
     serial_number : {<<"0", "3">>, <<"0", "4">>}]

NoDock == [model_number |-> <<>>, serial_number |-> <<>>]

Identity(d) == <<d.model_number, d.serial_number>>

EntIdle ==
    /\ ent_devices = <<>>
    /\ ent_created = {}

\* two config entries, for two different remotes, each with at most one dock
\* (with a coordinator); no two physical devices share model and serial
EntInit ==
    /\ ent_devices \in [ConfigEntries -> [remote : Remotes, dock : Docks \cup {NoDock}]]
    /\ Identity(ent_devices[1].remote) # Identity(ent_devices[2].remote)
    /\ ent_devices[1].dock # NoDock /\ ent_devices[2].dock # NoDock
          => Identity(ent_devices[1].dock) # Identity(ent_devices[2].dock)
    /\ ent_created = {}

\* number.py async_setup_entry (lines 139-157)
NumberPlatformSetup ==
    /\ ent_devices # <<>>
    /\ \E e \in ConfigEntries :
          LET remote == ent_devices[e].remote
              dock == ent_devices[e].dock
          IN  ent_created' = ent_created
                \cup {Entity(e, "UCRemoteNumber", Identity(remote), d,
                             NumberUniqueId(remote, d)) : d \in RemoteNumberIds}
                \cup (IF dock = NoDock THEN {}
                      ELSE {Entity(e, "UCDockNumber", Identity(dock), d,
                                   NumberUniqueId(dock, d)) : d \in DockNumberIds})
    /\ UNCHANGED ent_devices
    /\ UNCHANGED notEnt

\* update.py async_setup_entry (lines 22-29)
UpdatePlatformSetup ==
    /\ ent_devices # <<>>
    /\ \E e \in ConfigEntries :
          LET remote == ent_devices[e].remote
          IN  ent_created' = ent_created
                \cup {Entity(e, "Update", Identity(remote), update_status,
                             UpdateUniqueId(remote))}
    /\ UNCHANGED ent_devices
    /\ UNCHANGED notEnt

(***************************************************************************)
(* _migrate_device_identifiers (lines 290-314) on its own: the devices of  *)
(* one config entry, migrated once and then once more                      *)
(***************************************************************************)
\* a device's first identifier without its DOMAIN element: (serial) as the
\* first schema version stored it, or (model_number, serial_number)
DeviceIdentifiers ==
    {<<n>> : n \in SerialNumbers \cup {<<"d", "1">>, <<"u", "c", "r", "x">>}}
        \cup {<<m, n>> : m \in ModelNumbers, n \in SerialNumbers}

\* the device registry keeps identifiers unique across devices
RegisteredDevices ==
    {l \in SeqsUpTo(DeviceIdentifiers, MaxDevices) :
        Len(l) > 0 /\ \A i, j \in 1..Len(l) : i # j => l[i] # l[j]}

DmIdle ==
    /\ dm_pc = "off"
    /\ dm_api = [model_number |-> <<>>, serial_number |-> <<>>]
    /\ dm_before = <<>>
    /\ dm_after = <<>>
    /\ dm_again = <<>>

DmInit ==
    /\ dm_pc = "start"
    /\ dm_api \in [model_number : ModelNumbers, serial_number : SerialNumbers]
    /\ dm_before \in RegisteredDevices
    /\ dm_after = <<>>
    /\ dm_again = <<>>

MigrateDevices ==
    /\ dm_pc = "start"
    /\ dm_after' = _migrate_device_identifiers(dm_before, dm_api)
    /\ dm_pc' = "once"
    /\ UNCHANGED <<dm_api, dm_before, dm_again>>
    /\ UNCHANGED notDm

MigrateDevicesAgain ==
    /\ dm_pc = "once"
    /\ dm_again' = _migrate_device_identifiers(dm_after, dm_api)
    /\ dm_pc' = "twice"
    /\ UNCHANGED <<dm_api, dm_before, dm_after>>
    /\ UNCHANGED notDm

(***************************************************************************)
(* Specifications                                                          *)
(***************************************************************************)
\* a config entry over any sequence of setup attempts, loads and unloads
Init == EntryInit /\ MigIdle /\ RecIdle /\ NumIdle /\ UpdIdle /\ EntIdle /\ DmIdle

Next ==
    \/ SetupConnect
    \/ SetupApiInit
    \/ SetupMigrate
    \/ SetupReconcile
    \/ SetupDock
    \/ SetupFirstRefresh
    \/ SetupFinish
    \/ Unload

Spec == Init /\ [][Next]_vars

\* setup, unload and reload of an entry whose dock passwords get entered
InitReload == EntryInit /\ MigIdle /\ RecIdle /\ NumIdle /\ UpdIdle /\ EntIdle /\ DmIdle

NextReload ==
    \/ SetupConnect
    \/ SetupApiInit
    \/ SetupMigrate
    \/ SetupReconcile
    \/ SetupDock
    \/ SetupFirstRefresh
    \/ SetupFinish
    \/ Unload
    \/ DockPasswordEntered

SpecReload == InitReload /\ [][NextReload]_vars

\* the migration callback on every entry and device identity of the bounds
InitMigrate == MigInit /\ SetupIdle /\ RecIdle /\ NumIdle /\ UpdIdle /\ EntIdle /\ DmIdle

NextMigrate == MigrateFirst \/ MigrateSecond

SpecMigrate == InitMigrate /\ [][NextMigrate]_vars

\* dock reconciliation on every pair of lists of the bounds
InitReconcile == RecInit /\ SetupIdle /\ MigIdle /\ NumIdle /\ UpdIdle /\ EntIdle /\ DmIdle

NextReconcile == ReconcileFirst \/ ReconcileAgain

SpecReconcile == InitReconcile /\ [][NextReconcile]_vars

\* one invocation of async_set_native_value
InitNumber == NumInit /\ SetupIdle /\ MigIdle /\ RecIdle /\ UpdIdle /\ EntIdle /\ DmIdle

NextNumber == NumSetter \/ NumRequestRefresh \/ NumReturn

SpecNumber == InitNumber /\ [][NextNumber]_vars

\* the update entity under device changes, coordinator updates and installs
InitUpdate == UpdInit /\ SetupIdle /\ MigIdle /\ RecIdle /\ NumIdle /\ EntIdle /\ DmIdle

NextUpdate ==
    \/ DeviceChanges
    \/ _handle_coordinator_update
    \/ async_install
    \/ async_install_resume

SpecUpdate == InitUpdate /\ [][NextUpdate]_vars

\* the platforms creating their entities for two config entries
InitEntities == EntInit /\ SetupIdle /\ MigIdle /\ RecIdle /\ NumIdle /\ UpdIdle /\ DmIdle

NextEntities == NumberPlatformSetup \/ UpdatePlatformSetup

SpecEntities == InitEntities /\ [][NextEntities]_vars

\* the device-identifier migration on every device list of the bounds
InitDevices == DmInit /\ SetupIdle /\ MigIdle /\ RecIdle /\ NumIdle /\ UpdIdle /\ EntIdle

NextDevices == MigrateDevices \/ MigrateDevicesAgain

SpecDevices == InitDevices /\ [][NextDevices]_vars

(***************************************************************************)
(* Properties                                                              *)
(***************************************************************************)
Ids(l) == {l[i].id : i \in 1..Len(l)}

\* C1: every setup attempt either returns True with entry.runtime_data wired,
\* or fails with ConfigEntryAuthFailed (for an AuthenticationError of the
\* device client) or ConfigEntryNotReady (for any other failure of
\* validate_connection, get_remote_information, init or the first refresh);
\* no raw device-client exception escapes.
C1_SetupFailuresMapped ==
    /\ setup_result \in {"none", "True", "ConfigEntryAuthFailed", "ConfigEntryNotReady"}
    /\ setup_result = "True" =>
          runtime_data = RuntimeData("coordinator", "remote_api", dock_coordinators)
    /\ setup_cause.exc = "AuthenticationError" => setup_result = "ConfigEntryAuthFailed"
    /\ setup_cause.exc \notin {"none", "AuthenticationError"} =>
          setup_result = "ConfigEntryNotReady"

\* a unique id contains "ucr" or "ucd", whatever the case of its letters
HasMarker(id) ==
    \E i \in 1..(Len(id) - 2) :
        <<LowerChar(id[i]), LowerChar(id[i + 1]), LowerChar(id[i + 2])>> \in {ucr, ucd}

\* C2 as stated: an entry of any domain whose unique id has no marker gets
\* {model_number}_{original_id}, and a second application of the callback to
\* the migrated entry returns None, for every entry and model number.
C2_MigrationAnyDomainIdempotent ==
    /\ mig_pc \in {"once", "twice"} /\ ~HasMarker(mig_entry.unique_id) =>
          mig_first = NewUniqueId(Fmt2(mig_api.model_number, mig_entry.unique_id))
    /\ mig_pc = "twice" => mig_second = None

\* C2 amended: an entry without marker gets {model_number}_{original_id} when
\* its domain is neither update nor switch, or is switch and the id does not
\* contain "uc.main"; an update entry gets
\* {model_number}_{serial_number}_update_status; a switch entry whose id contains
\* "uc.main" is not migrated.  A second application returns None whenever the
\* model number contains "ucr" or "ucd" (case-insensitively).
C2_MigrationByDomain ==
    /\ mig_pc \in {"once", "twice"} /\ ~HasMarker(mig_entry.unique_id) =>
          mig_first =
             CASE mig_entry.domain = "update" ->
                    NewUniqueId(Fmt3(mig_api.model_number, mig_api.serial_number,
                                     update_status))
               [] mig_entry.domain = "switch" /\ Contains(mig_entry.unique_id, uc_main) ->
                    None
               [] OTHER ->
                    NewUniqueId(Fmt2(mig_api.model_number, mig_entry.unique_id))
    /\ mig_pc = "twice" /\ HasMarker(mig_api.model_number) => mig_second = None

C2_Witness ==
    /\ mig_pc = "twice"
    /\ mig_entry.domain = "number"
    /\ mig_entry.unique_id = <<"x", "U", "c">>
    /\ mig_api.model_number = UCR2
    /\ mig_first = NewUniqueId(<<"U", "C", "R", "2", "_", "x", "U", "c">>)
    /\ mig_second = None

\* C3: after reconciliation the persisted ids are the live ids; the records
\* whose id is live are kept unchanged and in order; each live id that was not
\* persisted has exactly one appended record {id, name, password: ""}; every
\* record whose id is not live is gone.
C3_Reconciled ==
    rec_pc \in {"once", "twice"} =>
       LET kept == SelectSeq(rec_config, LAMBDA r : r.id \in Ids(rec_live))
           new  == Ids(rec_live) \ Ids(rec_config)
       IN  /\ Ids(rec_docks) = Ids(rec_live)
           /\ Len(rec_docks) = Len(kept) + Cardinality(new)
           /\ SubSeq(rec_docks, 1, Len(kept)) = kept
           /\ \A i \in (Len(kept) + 1)..Len(rec_docks) :
                 /\ rec_docks[i].id \in new
                 /\ rec_docks[i].password = ""
                 /\ \E j \in 1..Len(rec_live) :
                       /\ rec_live[j].id = rec_docks[i].id
                       /\ rec_live[j].name = rec_docks[i].name
           /\ \A d \in new :
                 Cardinality({i \in 1..Len(rec_docks) : rec_docks[i].id = d}) = 1

C3_Witness ==
    /\ rec_pc = "once"
    /\ rec_config = << [id |-> 1, name |-> "saved", password |-> "pw"],
                       [id |-> 2, name |-> "saved", password |-> "pw"] >>
    /\ rec_live = << [id |-> 2, name |-> "live"], [id |-> 3, name |-> "live"] >>
    /\ rec_docks = << [id |-> 2, name |-> "saved", password |-> "pw"],
                      [id |-> 3, name |-> "live", password |-> ""] >>

\* C4: the migration step rewrites the registries iff entry.version is 1; the
\* version is 2 whenever setup is past that step; an entry at version 2 never
\* has its entity unique ids or device identifiers rewritten and never
\* returns to version 1, over any sequence of attempts.
C4_MigratesOnlyVersion1 ==
    [][ /\ (pc = "migrate" /\ pc' = "reconcile") =>
              /\ entry_version = 1 <=>
                    /\ HasCall(calls', "async_migrate_entries", 0)
                    /\ HasCall(calls', "_migrate_device_identifiers", 0)
              /\ entry_version = 1 =>
                    /\ ent_registry' = async_migrate_entries(ent_registry, api)
                    /\ dev_registry' = _migrate_device_identifiers(dev_registry, api)
        /\ pc' \in {"reconcile", "docks", "finish", "loaded"} => entry_version' = 2
        /\ entry_version = 2 =>
              /\ entry_version' = 2
              /\ ent_registry' = ent_registry
              /\ dev_registry' = dev_registry
      ]_vars

\* a later attempt on an entry that an earlier attempt migrated
C4_Witness ==
    /\ pc = "reconcile"
    /\ entry_version = 2
    /\ ent_registry = async_migrate_entries(LegacyInstall.entities, api)
    /\ ent_registry # LegacyInstall.entities
    /\ ~HasCall(calls, "async_migrate_entries", 0)

\* C5: unload raises nothing, whatever close_websocket, the issue deletions
\* and the platform teardown do, and it closes the connection, deletes the
\* dock_password advisory of every dock and tears the platforms down, in that
\* order, also when closing the connection fails.
C5_UnloadNeverFails ==
    [][ (pc = "loaded" /\ pc' = "idle") =>
           /\ unload_result' # "raised"
           /\ calls' = <<Call("close_websocket", 0)>> \o DeleteCalls(remote_docks)
                          \o <<Call("async_unload_platforms", 0)>>
           /\ issues' \cap DockIssues(remote_docks) = {}
      ]_vars

\* int(V) for V given in tenths: the integer part, towards zero
IntegerPart(tenths) ==
    CHOOSE n \in (-MaxTenths)..MaxTenths :
        IF tenths >= 0 THEN 10 * n <= tenths /\ tenths < 10 * n + 10
        ELSE 10 * n >= tenths /\ tenths > 10 * n - 10

NumIndex(ev) == CHOOSE i \in 1..Len(num_log) : num_log[i].ev = ev

NumCount(ev) == Cardinality({i \in 1..Len(num_log) : num_log[i].ev = ev})

SetterOnceWithInt ==
    /\ NumCount("control_fn") = 1
    /\ num_log[NumIndex("control_fn")].value = IntegerPart(num_value)
    /\ num_log[NumIndex("control_fn")].api_call.value = IntegerPart(num_value)

\* C6 as stated: control_fn is called once with int(V), and every invocation,
\* whatever the setter does, issues exactly one refresh request after it.
C6_AlwaysOneRefresh ==
    num_pc \in {"returned", "raised"} =>
       /\ SetterOnceWithInt
       /\ NumCount("async_request_refresh") = 1
       /\ NumIndex("control_fn") < NumIndex("async_request_refresh")
       /\ num_pc = "returned" => NumIndex("async_request_refresh") < NumIndex("return")

\* C6 amended: control_fn is called once with int(V); when that call returns
\* normally exactly one refresh request follows it and is awaited before
\* async_set_native_value returns; when it raises, the exception propagates
\* and no refresh request is issued.
C6_RefreshAfterSuccessfulSet ==
    /\ num_pc \in {"returned", "raised"} => SetterOnceWithInt
    /\ num_pc = "returned" =>
          /\ NumCount("async_request_refresh") = 1
          /\ NumIndex("control_fn") < NumIndex("async_request_refresh")
          /\ NumIndex("async_request_refresh") < NumIndex("return")
          /\ NumIndex("return") = Len(num_log)
    /\ num_pc = "raised" => NumCount("async_request_refresh") = 0
    /\ num_pc \in {"refresh", "awaiting"} => NumCount("return") = 0

C6_Witness ==
    /\ num_pc = "returned"
    /\ num_entity = [class |-> "UCDockNumber", key |-> "led_brightness"]
    /\ num_value = -15
    /\ num_log[1].api_call =
          [method |-> "send_command", arg |-> "SET_LED_BRIGHTNESS", value |-> -1,
           str |-> TRUE]
    /\ Len(num_log) = 3

\* C7: every entity's unique id is {model_number}_{serial_number}_{description
\* unique id} of its own device; no two entities share a unique id; the id the
\* version-1 migration writes for the firmware entity is the id the Update
\* class computes.
C7_UniqueIds ==
    /\ \A e \in ent_created :
          e.unique_id = Fmt3(e.device[1], e.device[2], e.desc)
    /\ \A e1, e2 \in ent_created : e1 # e2 => e1.unique_id # e2.unique_id
    /\ \A e \in ent_created :
          e.class = "Update" =>
             async_migrate_entity_entry(
                 [domain |-> "update", unique_id |-> <<"x">>],
                 [model_number |-> e.device[1], serial_number |-> e.device[2]])
               = NewUniqueId(e.unique_id)

\* the persisted password of a live dock
PersistedPassword(id) ==
    LET i == CHOOSE k \in 1..Len(entry_data.docks) : entry_data.docks[k].id = id
    IN  entry_data.docks[i].password

\* the docks the loop of lines 148-190 has dealt with
Handled == SubSeq(remote_docks, 1, dock_idx - 1)

FailedAfterLoop == setup_cause.call \in {"first_refresh", "init_websocket"}

\* C8: dock_coordinators holds exactly the live docks with a non-empty
\* password whose update and first refresh succeeded, each once and in order;
\* a dock that fails is left out and never ends the attempt, which goes on to
\* the main coordinator's first refresh.
C8_DockFailureIsolated ==
    /\ pc \in {"docks", "finish", "loaded"} =>
          LET good == SelectSeq(Handled,
                         LAMBDA d : PersistedPassword(d.id) # ""
                                    /\ dock_outcome[d.id] = "ok")
          IN  /\ dock_coordinators = [i \in 1..Len(good) |-> good[i].id]
              /\ \A i, j \in 1..Len(dock_coordinators) :
                    i # j => dock_coordinators[i] # dock_coordinators[j]
    /\ pc \in {"finish", "loaded"} =>
          /\ dock_idx = Len(remote_docks) + 1
          /\ HasCall(calls, "first_refresh", 0)
          /\ runtime_data.dock_coordinators = dock_coordinators
    /\ (pc = "idle" /\ \E d \in DockIds : HasCall(calls, "dock.update", d)) =>
          FailedAfterLoop

C8_Witness ==
    /\ pc = "loaded"
    /\ Len(remote_docks) = 2
    /\ dock_outcome[remote_docks[1].id] = "refresh_failed"
    /\ dock_outcome[remote_docks[2].id] = "ok"
    /\ dock_coordinators = <<remote_docks[2].id>>

\* C9: for every live dock whose persisted password is empty, setup raises
\* dock_password_{id}, builds no coordinator for it and makes no call to it,
\* and does not fail because of it; for a live dock with a password it raises
\* no such advisory.
C9_EmptyPasswordAdvisory ==
    /\ pc \in {"docks", "finish", "loaded"} =>
          \A i \in 1..Len(Handled) :
             LET d == Handled[i].id
             IN  IF PersistedPassword(d) = ""
                 THEN /\ <<"dock_password", d>> \in issues
                      /\ CountCall(calls, "async_create_issue", d) = 1
                      /\ ~HasCall(calls, "dock.update", d)
                      /\ ~HasCall(calls, "dock.first_refresh", d)
                      /\ \A k \in 1..Len(dock_coordinators) : dock_coordinators[k] # d
                 ELSE ~HasCall(calls, "async_create_issue", d)
    /\ (pc = "idle" /\ \E d \in DockIds : HasCall(calls, "async_create_issue", d)) =>
          FailedAfterLoop

\* a dock the device reports for the first time: appended without password
C9_Witness ==
    /\ pc = "loaded"
    /\ HasCall(calls, "async_update_entry(data)", 0)
    /\ \E i \in 1..Len(remote_docks) :
          /\ [id |-> remote_docks[i].id, name |-> "live", password |-> ""]
                = entry_data.docks[Len(entry_data.docks)]
          /\ <<"dock_password", remote_docks[i].id>> \in issues
    /\ \E i \in 1..Len(remote_docks) : PersistedPassword(remote_docks[i].id) = "pw"

\* C10: a coordinator update with update_in_progress true sets the indicator
\* to "0" when update_percent is 0 and to update_percent otherwise, and leaves
\* the version fields alone; otherwise it sets the indicator to False and the
\* version fields to the device's sw_version and latest_sw_version.
C10_CoordinatorUpdate ==
    [][ upd_op' = "handle" =>
           IF upd_api.update_in_progress = "True"
           THEN /\ upd_entity'.in_progress =
                      IF upd_api.update_percent = 0 THEN InProgressStr0
                      ELSE InProgressNum(upd_api.update_percent)
                /\ upd_entity'.installed_version = upd_entity.installed_version
                /\ upd_entity'.latest_version = upd_entity.latest_version
           ELSE /\ upd_entity'.in_progress = InProgressFalse
                /\ upd_entity'.installed_version = upd_api.sw_version
                /\ upd_entity'.latest_version = upd_api.latest_sw_version
      ]_vars

C10_Witness ==
    /\ upd_op = "handle"
    /\ upd_api.update_in_progress = "True"
    /\ upd_api.update_percent = 0
    /\ upd_entity.in_progress = InProgressStr0
    /\ upd_entity.installed_version # upd_api.sw_version

\* what the claims about async_install share: a call that finds the device
\* reporting an update in progress does nothing; update_remote is started
\* only while the device does not report an update in progress, once per
\* call; the indicator goes from installing to False only in a coordinator
\* update that sees update_in_progress not true
InstallGuarded ==
    /\ (upd_op' = "install" /\ upd_api.update_in_progress = "True") =>
           /\ upd_log' = <<>>
           /\ upd_entity' = upd_entity
           /\ upd_pending' = upd_pending
    /\ (upd_op' = "install" /\ upd_api.update_in_progress # "True") =>
           /\ upd_log' = <<"update_remote">>
           /\ upd_pending' = upd_pending + 1
    /\ (upd_pending' > upd_pending \/ upd_log' = <<"update_remote">>) =>
           /\ upd_op' = "install"
           /\ upd_api.update_in_progress # "True"
    /\ (upd_entity.in_progress # InProgressFalse /\ upd_entity'.in_progress = InProgressFalse) =>
           /\ upd_op' = "handle"
           /\ upd_api.update_in_progress # "True"

\* C11 as stated: async_install is a no-op when the device reports an update
\* in progress; otherwise it calls update_remote once and then sets the
\* indicator to "0" and writes the state, however update_remote ends;
\* update_remote is never issued while the device reports an update in
\* progress; the entity leaves installing only in a coordinator update
\* that sees no update in progress.
C11_InstallAlwaysSetsIndicator ==
    [][ /\ InstallGuarded
        /\ upd_pending' < upd_pending =>
               /\ upd_entity'.in_progress = InProgressStr0
               /\ upd_log' = <<"async_write_ha_state">>
      ]_vars

\* C11 amended: as above, but the indicator is set to "0" and the state is
\* written only when update_remote returns normally; when update_remote
\* raises, the exception leaves async_install, the entity is unchanged and
\* no state is written.
C11_InstallSetsIndicatorOnSuccess ==
    [][ /\ InstallGuarded
        /\ upd_op' = "install_return" =>
               /\ upd_pending' = upd_pending - 1
               /\ upd_entity' = [upd_entity EXCEPT !.in_progress = InProgressStr0]
               /\ upd_log' = <<"async_write_ha_state">>
        /\ upd_op' = "install_raise" =>
               /\ upd_pending' = upd_pending - 1
               /\ upd_entity' = upd_entity
               /\ upd_log' = <<>>
        /\ upd_pending' < upd_pending => upd_op' \in {"install_return", "install_raise"}
      ]_vars

\* async_install found the device not updating, update_remote returned, and
\* a coordinator update had set a progress number in between
C11_Witness ==
    /\ upd_op = "install_return"
    /\ upd_entity.in_progress = InProgressStr0
    /\ upd_api.update_in_progress = "True"
    /\ upd_api.update_percent > 0
    /\ upd_pending = 0

\* C12: a reconciliation run calls async_update_entry(data=...) if and only
\* if it removed or appended at least one record, and then once; the second
\* run with the same live dock list leaves the persisted list unchanged and
\* makes no such call.
C12_PersistsIffChanged ==
    [][ rec_pc' \in {"once", "twice"} =>
          LET before == {rec_docks[i] : i \in 1..Len(rec_docks)}
              after == {rec_docks'[i] : i \in 1..Len(rec_docks')}
              removed == before \ after # {}
              appended == after \ before # {}
          IN  /\ rec_saves' \in {rec_saves, rec_saves + 1}
              /\ (rec_saves' = rec_saves + 1) <=> (removed \/ appended)
              /\ (~removed /\ ~appended) => rec_docks' = rec_docks
              /\ rec_pc' = "twice" =>
                    /\ rec_docks' = rec_docks
                    /\ rec_saves' = rec_saves
      ]_vars

\* the first run dropped one record and appended another and persisted
\* once; the second run has been made
C12_Witness ==
    /\ rec_pc = "twice"
    /\ rec_saves = 1
    /\ \E i \in 1..Len(rec_config) : rec_config[i].id \notin Ids(rec_live)
    /\ \E i \in 1..Len(rec_live) : rec_live[i].id \notin Ids(rec_config)
    /\ Len(rec_docks) = Len(rec_config)

\* C13: whenever the entry is loaded, no dock whose persisted password is
\* non-empty has a dock_password advisory; and after an unload no
\* dock_password advisory is left.
C13_AdvisoryAutoResolved ==
    /\ pc = "loaded" =>
          \A i \in 1..Len(entry_data.docks) :
             entry_data.docks[i].password # "" =>
                <<"dock_password", entry_data.docks[i].id>> \notin issues
    /\ (pc = "idle" /\ unload_result # "none") =>
          \A d \in DockIds : <<"dock_password", d>> \notin issues

\* C14: after _migrate_device_identifiers no two distinct devices of the
\* entry carry the same identifier; a device whose first identifier
\* contains "ucr" or "ucd" (case-insensitive) is unchanged; a second run
\* changes no device.
C14_DevicesDistinguishable ==
    dm_pc \in {"once", "twice"} =>
       /\ \A i, j \in 1..Len(dm_after) : i # j => dm_after[i] # dm_after[j]
       /\ \A i \in 1..Len(dm_before) :
             ~NoMarker(dm_before[i][1]) => dm_after[i] = dm_before[i]
       /\ dm_pc = "twice" => dm_again = dm_after

====
